---- MODULE Spec2Model ----
(***************************************************************************)
(* Model of src/app.py: the Flask request handlers of the lodge website,   *)
(* the Firebase stores they read and write (users, bookings, reviews,      *)
(* contact_messages), the mail relay and the session.                      *)
(*                                                                         *)
(* Every access to a store and every send_email call is one step of the    *)
(* request that makes it, so requests interleave at exactly the points     *)
(* where the code talks to the outside.  Code between two such points      *)
(* (reading the form and the session, flash, building the response) is     *)
(* local to the request and belongs to the step before it.                 *)
(*                                                                         *)
(* The session is the one of a single browser, read and written where the  *)
(* views read and write session["user"].  Forms carry every field the view *)
(* reads.  datetime.now() is the count of requests received so far.  The   *)
(* views that only render a page (the static pages, GET of contact,        *)
(* reviews, signup and login) touch no state and are left out.  mail.send  *)
(* either hands the message to the relay or raises.                        *)
(***************************************************************************)
EXTENDS Naturals, Sequences, FiniteSets

VARIABLES
    users,             \* db "users/<key>": key -> record, NoUser when there is none
    bookings,          \* db "bookings/<category>": category -> pushed records, in push order
    reviews,           \* db "reviews": pushed records, in push order
    contact_messages,  \* db "contact_messages": pushed records, in push order
    outbox,            \* messages the mail relay accepted, in order
    session,           \* session["user"], NoEmail when the key is absent
    loginNext,         \* "next" query argument of the login page the browser is on
    req,               \* slot -> the request running in it, Idle when there is none
    last,              \* the request answered most recently, with its response
    started,           \* number of requests received so far (also the clock)
    flow,              \* history: gated endpoint whose login redirect is being followed
    signedUp,          \* history: signups that reported success
    racedKeys,         \* history: user keys for which two signups overlapped in time
    racedReviewers,    \* history: identities with two review POSTs overlapping in time
    everBound          \* history: emails a successful login bound to the session

vars == <<users, bookings, reviews, contact_messages, outbox, session, loginNext, last,
          req, last, started, flow, signedUp, racedKeys, racedReviewers, everBound>>

stores == <<users, bookings, reviews, contact_messages>>
history == <<flow, signedUp, racedKeys, racedReviewers, everBound>>

----------------------------------------------------------------------------
(* Bounds and input sets *)

\* requests received in one behaviour
MaxReq == 3

\* requests being served at the same time
MaxInFlight == 2

Slots == 1..MaxInFlight

None == "none"
NoEmail == <<>>
NoUser == [name |-> None, password |-> None]

EmailDot == <<"j", ".", "d">>
EmailUnd == <<"j", "_", "d">>
EmailOther == <<"k">>
EmailVisitor == <<"v">>
Emails == {EmailDot, EmailUnd, EmailOther}
Names == {"Jane", "John"}
Passwords == {"pw1", "pw2"}
Categories == {"hunt", "accommodation", "water"}
Methods == {"GET", "POST"}

SignupForms ==
    [name : {"Jane"}, email : Emails, password : {"pw1"}] \cup
    [name : {"John"}, email : Emails, password : {"pw2"}]
LoginForms == [email : Emails, password : Passwords]
ContactForms == [first_name : {"Jane"}, email : {EmailVisitor}, phone : {"555"}, message : {"Hi"}]
ReviewForms == [review : {"Lovely stay"}, rating : {"5"}]
BookingForms(category) ==
    CASE category = "hunt" ->
           [first_name : {"Jane"}, contact : {"555"}, hunt_date : {"2025-07-01"}]
      [] category = "accommodation" ->
           [first_name : {"Jane"}, contact : {"555"}, checkin_date : {"2025-07-02"}]
      [] category = "water" ->
           [first_name : {"Jane"}, contact : {"555"}, product_quantity : {"3"},
            location : {"Qwaqwa"}]

Admin == "MAIL_USERNAME"

----------------------------------------------------------------------------
(* Helpers of app.py *)

\* email.replace('.', '_')
UserKey(email) == [i \in 1..Len(email) |-> IF email[i] = "." THEN "_" ELSE email[i]]

Keys == {UserKey(e) : e \in Emails}

\* get_user: ref.get() gives None for a path that holds nothing
get_user(email) ==
    IF UserKey(email) \in DOMAIN users THEN users[UserKey(email)] ELSE NoUser

\* the existence test inverted
UserExists_inverted(email) == get_user(email) = NoUser

\* if get_user(email):
UserExists(email) == get_user(email) # NoUser

\* the password comparison left out
CredentialsOk_nopassword(user, password) == user # NoUser

\* not (not user or user["password"] != password)
CredentialsOk(user, password) == user # NoUser /\ user.password = password

\* the session test left out
LoggedIn_always == TRUE

\* "user" in session
LoggedIn == session # NoEmail

\* name and password stored in each other's field
save_user_swapped(email, name, password) ==
    users' = [users EXCEPT ![UserKey(email)] = [name |-> password, password |-> name]]

\* save_user: ref.set, unconditional
save_user(email, name, password) ==
    users' = [users EXCEPT ![UserKey(email)] = [name |-> name, password |-> password]]

\* get_all_reviews
get_all_reviews == {reviews[i] : i \in 1..Len(reviews)}

\* the comparison of the scan inverted
HasReviewed_inverted(email) == \E r \in get_all_reviews : r.user # email

\* any(r["user"] == email for r in get_all_reviews())
HasReviewed(email) == \E r \in get_all_reviews : r.user = email

\* get_user(email)["name"]
user_name(email) == get_user(email).name

\* send_email: the relay accepts the message
send_email(subject, recipient, body) ==
    outbox' = Append(outbox, [subject |-> subject, to |-> recipient, body |-> body])

\* phone and message stored in each other's field
save_contact_message_swapped(name, email, phone, message) ==
    contact_messages' = Append(contact_messages,
        [name |-> name, email |-> email, phone |-> message, message |-> phone,
         timestamp |-> started])

\* save_contact_message: ref.push with the time of the call
save_contact_message(name, email, phone, message) ==
    contact_messages' = Append(contact_messages,
        [name |-> name, email |-> email, phone |-> phone, message |-> message,
         timestamp |-> started])

\* review text and rating stored in each other's field
save_review_swapped(user_email, name, review_text, rating) ==
    reviews' = Append(reviews,
        [user |-> user_email, name |-> name, review |-> rating, rating |-> review_text])

\* save_review: ref.push
save_review(user_email, name, review_text, rating) ==
    reviews' = Append(reviews,
        [user |-> user_email, name |-> name, review |-> review_text, rating |-> rating])

\* {"user": user_email, **data}
BookingRecord(user_email, data) ==
    [f \in {"user"} \cup DOMAIN data |-> IF f = "user" THEN user_email ELSE data[f]]

\* the path of the hunt view copied into the other two
save_booking_hunt(category, user_email, data) ==
    bookings' = [bookings EXCEPT !["hunt"] = Append(@, BookingRecord(user_email, data))]

\* save_booking: ref.push under bookings/<category>
save_booking(category, user_email, data) ==
    bookings' = [bookings EXCEPT ![category] = Append(@, BookingRecord(user_email, data))]

\* the endpoint, template and mail subject of each booking view
Endpoint(category) ==
    CASE category = "hunt" -> "book_hunt"
      [] category = "accommodation" -> "accommodation"
      [] category = "water" -> "water"

Template(category) ==
    CASE category = "hunt" -> "book_hunt.html"
      [] category = "accommodation" -> "accommodation.html"
      [] category = "water" -> "water.html"

Subject(category) ==
    CASE category = "hunt" -> "New Hunt Booking"
      [] category = "accommodation" -> "New Accommodation Booking"
      [] category = "water" -> "New Water Order"

\* url_for
url_for(endpoint) ==
    CASE endpoint = "index" -> "/"
      [] endpoint = "contact" -> "/contact"
      [] endpoint = "reviews" -> "/reviews"
      [] endpoint = "signup" -> "/signup"
      [] endpoint = "login" -> "/login"
      [] endpoint = "book_hunt" -> "/book-hunt"
      [] endpoint = "accommodation" -> "/accommodation"
      [] endpoint = "water" -> "/purified-water"

\* redirect(url_for(endpoint, next=next)) after flash(message, category)
Redirect(endpoint, next, message, category) ==
    [type |-> "redirect", to |-> url_for(endpoint), next |-> next,
     flash |-> message, category |-> category, success |-> FALSE]

\* render_template(template, success=success)
Render(template, success) ==
    [type |-> "render", to |-> template, next |-> None,
     flash |-> None, category |-> None, success |-> success]

\* an exception leaves the view: no flash, no redirect, no template
Crash ==
    [type |-> "error", to |-> None, next |-> None,
     flash |-> None, category |-> None, success |-> FALSE]

NoResp ==
    [type |-> None, to |-> None, next |-> None,
     flash |-> None, category |-> None, success |-> FALSE]

----------------------------------------------------------------------------
(* Requests *)

Idle == [kind |-> "none", pc |-> "idle", form |-> [email |-> NoEmail],
         user |-> NoEmail, uname |-> None, resp |-> NoResp]

NewReq(kind, pc, form, user) ==
    [kind |-> kind, pc |-> pc, form |-> form, user |-> user, uname |-> None,
     resp |-> NoResp]

Free(s) == req[s].pc = "idle"
InFlight(s) == ~Free(s)

\* a request is received: it takes the lowest free slot
Begin(s) ==
    /\ started < MaxReq
    /\ Free(s)
    /\ \A t \in Slots : Free(t) => s <= t
    /\ started' = started + 1

\* the browser follows the response: only a redirect to the login page leaves
\* it on a login form, whose URL carries the redirect's "next" argument
Browse(resp) ==
    loginNext' = IF resp.type = "redirect" /\ resp.to = url_for("login")
                 THEN resp.next ELSE None

\* the view returns (or raises): the request is over
Respond(s, r, resp) ==
    /\ last' = [r EXCEPT !.pc = "done", !.resp = resp]
    /\ req' = [req EXCEPT ![s] = Idle]
    /\ Browse(resp)

\* the database outlives the process: it starts empty or with users signed up before
InitialUsers ==
    {[k \in Keys |-> NoUser]} \cup
    {[k \in Keys |-> IF k = UserKey(f.email)
                     THEN [name |-> f.name, password |-> f.password] ELSE NoUser] :
        f \in {g \in SignupForms : g.email = EmailDot /\ g.password = "pw1"}}

Init ==
    /\ users \in InitialUsers
    /\ bookings = [c \in Categories |-> <<>>]
    /\ reviews = <<>>
    /\ contact_messages = <<>>
    /\ outbox = <<>>
    /\ session = NoEmail
    /\ loginNext = None
    /\ req = [s \in Slots |-> Idle]
    /\ last = Idle
    /\ started = 0
    /\ flow = None
    /\ signedUp = {f \in SignupForms :
                     users[UserKey(f.email)] = [name |-> f.name, password |-> f.password]
                     /\ f.email = EmailDot}
    /\ racedKeys = {}
    /\ racedReviewers = {}
    /\ everBound = {}

----------------------------------------------------------------------------
(* /signup *)

\* POST /signup arrives; the form is read
SignupBegin(s, form) ==
    /\ Begin(s)
    /\ req' = [req EXCEPT ![s] = NewReq("signup", "check", form, NoEmail)]
    /\ racedKeys' = racedKeys \cup
         {UserKey(req[t].form.email) : t \in
            {t \in Slots : /\ InFlight(t)
                           /\ req[t].kind = "signup"
                           /\ UserKey(req[t].form.email) = UserKey(form.email)}}
    /\ UNCHANGED <<stores, outbox, session, loginNext, last, flow, signedUp,
                   racedReviewers, everBound>>

\* if get_user(email): flash, redirect to signup
SignupCheck(s) ==
    /\ req[s].kind = "signup" /\ req[s].pc = "check"
    /\ IF UserExists(req[s].form.email)
       THEN /\ Respond(s, req[s], Redirect("signup", None, "User already exists", "error"))
            /\ flow' = None
       ELSE /\ req' = [req EXCEPT ![s].pc = "set"]
            /\ UNCHANGED <<loginNext, last, flow>>
    /\ UNCHANGED <<stores, outbox, session, started, signedUp, racedKeys,
                   racedReviewers, everBound>>

\* save_user, flash, redirect to login
SignupSet(s) ==
    /\ req[s].kind = "signup" /\ req[s].pc = "set"
    /\ save_user(req[s].form.email, req[s].form.name, req[s].form.password)
    /\ Respond(s, req[s], Redirect("login", None, "Signup successful! Please login.", "success"))
    /\ signedUp' = signedUp \cup {req[s].form}
    /\ flow' = None
    /\ UNCHANGED <<bookings, reviews, contact_messages, outbox, session, started,
                   racedKeys, racedReviewers, everBound>>

----------------------------------------------------------------------------
(* /login, /logout *)

\* POST /login: next_page from the query string, the form, get_user, the check
Login(s, form) ==
    /\ Begin(s)
    /\ LET next_page == loginNext
           user == get_user(form.email)
           r == NewReq("login", "done", [email |-> form.email,
                       password |-> form.password, next |-> next_page], session)
       IN IF ~CredentialsOk(user, form.password)
          THEN /\ Respond(s, r, Redirect("login", None, "Incorrect email or password", "error"))
               /\ UNCHANGED <<session, everBound, flow>>
          ELSE /\ session' = form.email
               /\ Respond(s, r, Redirect(IF next_page = None THEN "index" ELSE next_page,
                                          None, "Login successful!", "success"))
               /\ everBound' = everBound \cup {form.email}
               /\ flow' = None
    /\ UNCHANGED <<stores, outbox, signedUp, racedKeys, racedReviewers>>

\* GET /logout: session.clear()
Logout(s) ==
    /\ Begin(s)
    /\ session' = NoEmail
    /\ Respond(s, NewReq("logout", "done", [email |-> NoEmail], session),
               Redirect("index", None, "Logged out successfully", "success"))
    /\ flow' = None
    /\ UNCHANGED <<stores, outbox, signedUp, racedKeys, racedReviewers, everBound>>

----------------------------------------------------------------------------
(* /contact *)

\* POST /contact arrives: the session decides whose name and email are used
ContactBegin(s, form) ==
    /\ Begin(s)
    /\ req' = [req EXCEPT ![s] =
         IF LoggedIn
         THEN NewReq("contact", "name", [form EXCEPT !.email = session, !.phone = ""], session)
         ELSE [NewReq("contact", "push", form, NoEmail) EXCEPT !.uname = form.first_name]]
    /\ UNCHANGED <<stores, outbox, session, loginNext, last, history>>

\* user_name = get_user(email)["name"]
ContactName(s) ==
    /\ req[s].kind = "contact" /\ req[s].pc = "name"
    /\ IF get_user(req[s].user) = NoUser
       THEN /\ Respond(s, req[s], Crash)
            /\ flow' = None
       ELSE /\ req' = [req EXCEPT ![s].uname = user_name(req[s].user), ![s].pc = "push"]
            /\ UNCHANGED <<loginNext, last, flow>>
    /\ UNCHANGED <<stores, outbox, session, started, signedUp, racedKeys,
                   racedReviewers, everBound>>

ContactPush(s) ==
    /\ req[s].kind = "contact" /\ req[s].pc = "push"
    /\ save_contact_message(req[s].uname, req[s].form.email, req[s].form.phone,
                            req[s].form.message)
    /\ req' = [req EXCEPT ![s].pc = "mail_admin"]
    /\ UNCHANGED <<users, bookings, reviews, outbox, session, loginNext, last, started, history>>

\* send_email("New Contact Message from Website", MAIL_USERNAME, admin_body)
ContactMailAdmin(s) ==
    /\ req[s].kind = "contact" /\ req[s].pc = "mail_admin"
    /\ send_email("New Contact Message from Website", Admin,
                  <<req[s].uname, req[s].form.email, req[s].form.phone, req[s].form.message>>)
    /\ req' = [req EXCEPT ![s].pc = "mail_reply"]
    /\ UNCHANGED <<stores, session, loginNext, last, started, history>>

\* send_email("We received your message", email, ...), flash, redirect to contact
ContactMailReply(s) ==
    /\ req[s].kind = "contact" /\ req[s].pc = "mail_reply"
    /\ send_email("We received your message", req[s].form.email, <<"Thank you">>)
    /\ Respond(s, req[s], Redirect("contact", None, "Your message has been sent!", "success"))
    /\ flow' = None
    /\ UNCHANGED <<stores, session, started, signedUp, racedKeys, racedReviewers, everBound>>

----------------------------------------------------------------------------
(* /reviews *)

\* POST /reviews arrives: without a session user it only redirects to reviews
ReviewBegin(s, form) ==
    /\ Begin(s)
    /\ IF LoggedIn
       THEN /\ req' = [req EXCEPT ![s] = NewReq("reviews", "scan", form, session)]
            /\ racedReviewers' = racedReviewers \cup
                 {req[t].user : t \in {t \in Slots : /\ InFlight(t)
                                                     /\ req[t].kind = "reviews"
                                                     /\ req[t].user = session}}
            /\ UNCHANGED <<loginNext, last, flow>>
       ELSE /\ Respond(s, NewReq("reviews", "done", form, NoEmail),
                       Redirect("reviews", None, None, None))
            /\ flow' = None
            /\ UNCHANGED racedReviewers
    /\ UNCHANGED <<stores, outbox, session, signedUp, racedKeys, everBound>>

\* any(r["user"] == email for r in get_all_reviews())
ReviewScan(s) ==
    /\ req[s].kind = "reviews" /\ req[s].pc = "scan"
    /\ IF HasReviewed(req[s].user)
       THEN /\ Respond(s, req[s], Redirect("reviews", None,
                                           "You have already submitted a review.", "error"))
            /\ flow' = None
       ELSE /\ req' = [req EXCEPT ![s].pc = "name"]
            /\ UNCHANGED <<loginNext, last, flow>>
    /\ UNCHANGED <<stores, outbox, session, started, signedUp, racedKeys,
                   racedReviewers, everBound>>

\* name = get_user(email)["name"]
ReviewName(s) ==
    /\ req[s].kind = "reviews" /\ req[s].pc = "name"
    /\ IF get_user(req[s].user) = NoUser
       THEN /\ Respond(s, req[s], Crash)
            /\ flow' = None
       ELSE /\ req' = [req EXCEPT ![s].uname = user_name(req[s].user), ![s].pc = "push"]
            /\ UNCHANGED <<loginNext, last, flow>>
    /\ UNCHANGED <<stores, outbox, session, started, signedUp, racedKeys,
                   racedReviewers, everBound>>

ReviewPush(s) ==
    /\ req[s].kind = "reviews" /\ req[s].pc = "push"
    /\ save_review(req[s].user, req[s].uname, req[s].form.review, req[s].form.rating)
    /\ req' = [req EXCEPT ![s].pc = "mail"]
    /\ UNCHANGED <<users, bookings, contact_messages, outbox, session, loginNext, last,
                   started, history>>

\* send_email("New Review Submitted", ...), flash, redirect to reviews
ReviewMail(s) ==
    /\ req[s].kind = "reviews" /\ req[s].pc = "mail"
    /\ send_email("New Review Submitted", Admin,
                  <<req[s].user, req[s].uname, req[s].form.rating, req[s].form.review>>)
    /\ Respond(s, req[s], Redirect("reviews", None, "Review submitted!", "success"))
    /\ flow' = None
    /\ UNCHANGED <<stores, session, started, signedUp, racedKeys, racedReviewers, everBound>>

----------------------------------------------------------------------------
(* /book-hunt, /accommodation, /purified-water *)

\* the request arrives: without a session user it redirects to login with next;
\* a GET renders the form; a POST reads the form and goes on to save_booking
BookingBegin(s, category, method, form) ==
    /\ Begin(s)
    /\ LET r == NewReq("booking", "push",
                       [category |-> category, method |-> method, data |-> form], session)
       IN IF ~LoggedIn
          THEN /\ Respond(s, r, Redirect("login", Endpoint(category), None, None))
               /\ flow' = Endpoint(category)
          ELSE IF method = "POST"
               THEN /\ req' = [req EXCEPT ![s] = r]
                    /\ UNCHANGED <<loginNext, last, flow>>
               ELSE /\ Respond(s, r, Render(Template(category), FALSE))
                    /\ flow' = None
    /\ UNCHANGED <<stores, outbox, session, signedUp, racedKeys, racedReviewers, everBound>>

BookingPush(s) ==
    /\ req[s].kind = "booking" /\ req[s].pc = "push"
    /\ save_booking(req[s].form.category, req[s].user, req[s].form.data)
    /\ req' = [req EXCEPT ![s].pc = "mail"]
    /\ UNCHANGED <<users, reviews, contact_messages, outbox, session, loginNext, last,
                   started, history>>

\* send_email(subject, MAIL_USERNAME, ...), success = True, render
BookingMail(s) ==
    /\ req[s].kind = "booking" /\ req[s].pc = "mail"
    /\ send_email(Subject(req[s].form.category), Admin,
                  <<req[s].user, req[s].form.data>>)
    /\ Respond(s, req[s], Render(Template(req[s].form.category), TRUE))
    /\ flow' = None
    /\ UNCHANGED <<stores, session, started, signedUp, racedKeys, racedReviewers, everBound>>

----------------------------------------------------------------------------
(* the mail relay *)

MailPcs == {"mail", "mail_admin", "mail_reply"}

\* mail.send raises: nothing catches it, the exception leaves the view
MailFails(s) ==
    /\ req[s].pc \in MailPcs
    /\ Respond(s, req[s], Crash)
    /\ flow' = None
    /\ UNCHANGED <<stores, outbox, session, started, signedUp, racedKeys,
                   racedReviewers, everBound>>

----------------------------------------------------------------------------

Next ==
    \E s \in Slots :
        \/ \E form \in SignupForms : SignupBegin(s, form)
        \/ SignupCheck(s)
        \/ SignupSet(s)
        \/ \E form \in LoginForms : Login(s, form)
        \/ Logout(s)
        \/ \E form \in ContactForms : ContactBegin(s, form)
        \/ ContactName(s)
        \/ ContactPush(s)
        \/ ContactMailAdmin(s)
        \/ ContactMailReply(s)
        \/ \E form \in ReviewForms : ReviewBegin(s, form)
        \/ ReviewScan(s)
        \/ ReviewName(s)
        \/ ReviewPush(s)
        \/ ReviewMail(s)
        \/ \E category \in Categories, method \in Methods :
              \E form \in BookingForms(category) : BookingBegin(s, category, method, form)
        \/ BookingPush(s)
        \/ BookingMail(s)
        \/ MailFails(s)

Spec == Init /\ [][Next]_vars

----------------------------------------------------------------------------
(* Steps, as seen from outside *)

\* a request that is answered in the step that receives it
Answered(kind) == started' # started /\ req' = req /\ last'.kind = kind

\* the request in slot s takes a step
Steps(s, kind, pc) == req[s].kind = kind /\ req[s].pc = pc /\ req'[s] # req[s]

\* the request in slot s is answered by this step
Ends(s) == InFlight(s) /\ req'[s] = Idle

LoginSucceeds == Answered("login") /\ last'.resp.flash = "Login successful!"
LoginFails == Answered("login") /\ last'.resp.flash = "Incorrect email or password"

StoredUser(f) == [name |-> f.name, password |-> f.password]

----------------------------------------------------------------------------
(* Claims *)

\* C1 as stated: under any interleaving of requests, once signup(E, name, P)
\* has succeeded, login(E, P) succeeds and binds the session to E, and
\* login(E, Q) with Q # P fails with "Incorrect email or password" and binds
\* nothing.
C1_AsStated ==
    [][Answered("login") =>
         \A f \in signedUp :
             f.email = last'.form.email =>
                 IF last'.form.password = f.password
                 THEN LoginSucceeds /\ session' = f.email
                 ELSE LoginFails /\ session' = session]_vars

\* C1 amended: for an email E whose store key saw no two signups overlapping
\* in time, once signup(E, name, P) has succeeded, login(E, P) succeeds and
\* binds the session to E, and login(E, Q) with Q # P fails with "Incorrect
\* email or password" and leaves the session as it was.
C1_LoginAfterSignup ==
    [][Answered("login") =>
         \A f \in signedUp :
             (f.email = last'.form.email /\ UserKey(f.email) \notin racedKeys) =>
                 IF last'.form.password = f.password
                 THEN LoginSucceeds /\ session' = f.email
                 ELSE LoginFails /\ session' = session]_vars

\* a login with the password of a signup made in this run has succeeded
C1_Witness ==
    /\ last.kind = "login"
    /\ last.resp.flash = "Login successful!"
    /\ session = last.form.email
    /\ \E f \in signedUp : /\ f.email = last.form.email
                            /\ f.password = last.form.password
                            /\ f.email # EmailDot
    /\ UserKey(last.form.email) \notin racedKeys

\* C2: a signup for email E that starts after a signup for E has succeeded
\* (no signup for E's key overlapping another) fails with "User already
\* exists" and writes nothing: the record of E is still the first signup's
\* name and password.
C2_SecondSignupFails ==
    [][\A s \in Slots :
         Steps(s, "signup", "check") =>
             \A f \in signedUp :
                 (f.email = req[s].form.email /\ UserKey(f.email) \notin racedKeys) =>
                     /\ Ends(s)
                     /\ last'.resp.flash = "User already exists"
                     /\ last'.resp.to = "/signup"
                     /\ users' = users
                     /\ get_user(f.email)' = StoredUser(f)]_vars

\* a second signup for an email, with another name and password, was refused
\* and the record is the first one's
C2_Witness ==
    /\ last.kind = "signup"
    /\ last.resp.flash = "User already exists"
    /\ \E f \in signedUp : /\ f.email = last.form.email
                            /\ f.password # last.form.password
                            /\ f.name # last.form.name
                            /\ get_user(f.email) = StoredUser(f)
                            /\ UserKey(f.email) \notin racedKeys

\* C8: two signups for one key can both report success only when they
\* overlapped in time, and then the store holds the record of the set that
\* ran last: every stored record is that of a signup that reported success,
\* and two successful signups for one key mean the key was raced.
C8_SignupRace ==
    /\ \A k \in Keys :
          users[k] # NoUser =>
              \E f \in signedUp : UserKey(f.email) = k /\ users[k] = StoredUser(f)
    /\ \A f, g \in signedUp :
          (f # g /\ UserKey(f.email) = UserKey(g.email)) => UserKey(f.email) \in racedKeys

\* both signups for one email reported success, the store holds the second
\* one's record, and a login with the first one's password was refused
C8_Witness ==
    \E f, g \in signedUp :
        /\ f.email = g.email /\ f.name # g.name /\ f.password # g.password
        /\ get_user(g.email) = StoredUser(g)
        /\ last.kind = "login"
        /\ last.form.email = f.email /\ last.form.password = f.password
        /\ last.resp.flash = "Incorrect email or password"

----------------------------------------------------------------------------
(* Reviews *)

ReviewsBy(rv, email) == Cardinality({i \in DOMAIN rv : rv[i].user = email})

ReviewMailsAbout(ob, email) ==
    Cardinality({i \in DOMAIN ob : /\ ob[i].subject = "New Review Submitted"
                                   /\ ob[i].to = Admin
                                   /\ ob[i].body[1] = email})

\* C3: for an identity I whose review POSTs come one after the other, the
\* write of the first takes the store from no review of I to exactly one,
\* tagged with I and returned by get_all_reviews; a POST that finds a review
\* of I is answered "You have already submitted a review.", appends nothing
\* and sends nothing, so the store still holds exactly one review of I.
C3_OneReviewInSequence ==
    [][\A s \in Slots :
         LET I == req[s].user IN
         /\ (Steps(s, "reviews", "push") /\ I \notin racedReviewers) =>
               /\ ReviewsBy(reviews, I) = 0
               /\ Len(reviews') = Len(reviews) + 1
               /\ ReviewsBy(reviews', I) = 1
               /\ \E r \in get_all_reviews' : r.user = I /\ r.review = req[s].form.review
         /\ (Steps(s, "reviews", "scan") /\ ReviewsBy(reviews, I) > 0) =>
               /\ Ends(s)
               /\ last'.resp.flash = "You have already submitted a review."
               /\ reviews' = reviews
               /\ outbox' = outbox
               /\ I \notin racedReviewers => ReviewsBy(reviews', I) = 1]_vars

\* the second POST of an identity, made after the first was over, was refused
C3_Witness ==
    /\ last.kind = "reviews"
    /\ last.resp.flash = "You have already submitted a review."
    /\ last.user \notin racedReviewers
    /\ ReviewsBy(reviews, last.user) = 1
    /\ \E r \in get_all_reviews : r.user = last.user

\* C7: the store holds two reviews of one identity only when two of its review
\* POSTs overlapped in time (both scans ran before either write), and no more
\* admin notifications about an identity are sent than reviews of it are stored.
C7_ReviewRace ==
    \A I \in Emails :
        /\ ReviewsBy(reviews, I) >= 2 => I \in racedReviewers
        /\ ReviewMailsAbout(outbox, I) <= ReviewsBy(reviews, I)

\* two overlapping POSTs of one identity both wrote and both notified the admin
C7_Witness ==
    \E I \in Emails :
        /\ ReviewsBy(reviews, I) = 2
        /\ ReviewMailsAbout(outbox, I) = 2
        /\ I \in racedReviewers

----------------------------------------------------------------------------
(* Gates and continuation *)

\* C4: a request to a gated workflow (reviews POST, book-hunt, accommodation,
\* purified-water) made without a session user is answered by a redirect to
\* the login page whose "next" names that workflow, and by nothing else.
C4_GateRedirectsToLogin ==
    (last.kind \in {"reviews", "booking"} /\ last.user = NoEmail) =>
        /\ last.resp.type = "redirect"
        /\ last.resp.to = "/login"
        /\ last.resp.next = IF last.kind = "reviews" THEN "reviews"
                            ELSE Endpoint(last.form.category)

\* C5: the login that completes a flow begun by the redirect of an
\* unauthenticated /book-hunt request redirects to /book-hunt, also after
\* failed attempts in that flow; a successful login outside such a flow and
\* with no "next" redirects to index.
C5_LoginReturnsToWorkflow ==
    [][LoginSucceeds =>
         /\ flow = "book_hunt" => last'.resp.to = "/book-hunt"
         /\ (flow = None /\ last'.form.next = None) => last'.resp.to = "/"]_vars

----------------------------------------------------------------------------
(* Submissions *)

IsPrefix(a, b) == Len(a) <= Len(b) /\ \A i \in DOMAIN a : a[i] = b[i]

\* the ContactMessage that request r writes, whatever its timestamp
IsMessageOf(m, r) ==
    /\ DOMAIN m = {"name", "email", "phone", "message", "timestamp"}
    /\ m.name = r.uname /\ m.email = r.form.email
    /\ m.phone = r.form.phone /\ m.message = r.form.message

\* the record of request r is in the collection of its workflow
Stored(r, cm, rv, bk) ==
    CASE r.kind = "contact" -> \E i \in DOMAIN cm : IsMessageOf(cm[i], r)
      [] r.kind = "reviews" ->
           \E i \in DOMAIN rv : rv[i] = [user |-> r.user, name |-> r.uname,
                                          review |-> r.form.review, rating |-> r.form.rating]
      [] r.kind = "booking" ->
           \E i \in DOMAIN bk[r.form.category] :
               bk[r.form.category][i] = BookingRecord(r.user, r.form.data)
      [] OTHER -> FALSE

Anonymous(r) == r.kind = "contact" /\ r.user = NoEmail

\* C6 as stated: every anonymous POST to /contact appends one ContactMessage
\* with the four form values and a timestamp, sends two emails (admin, then
\* the submitted address) and is answered by a redirect to /contact with the
\* success flash.
C6_AsStated ==
    (Anonymous(last) /\ last.pc = "done") =>
        /\ Stored(last, contact_messages, reviews, bookings)
        /\ \E i, j \in DOMAIN outbox :
              /\ i < j
              /\ outbox[i].to = Admin
              /\ outbox[j].to = last.form.email
        /\ last.resp = Redirect("contact", None, "Your message has been sent!", "success")

\* C6 amended: every anonymous POST to /contact appends exactly one
\* ContactMessage with the four form values and a timestamp, before any
\* email; when the relay accepts both messages it sends exactly two emails
\* (admin, then the submitted address) and is answered by a redirect to
\* /contact with the success flash; when a send raises, no email is sent by
\* that step and the answer is an error.
C6_ContactSubmission ==
    [][\A s \in Slots :
         (Anonymous(req[s]) /\ req'[s] # req[s]) =>
             LET r == req[s] IN
             /\ r.pc = "push" =>
                   /\ Len(contact_messages') = Len(contact_messages) + 1
                   /\ IsPrefix(contact_messages, contact_messages')
                   /\ IsMessageOf(contact_messages'[Len(contact_messages')], r)
                   /\ r.uname = r.form.first_name
                   /\ outbox' = outbox
                   /\ req'[s].pc = "mail_admin"
             /\ r.pc # "push" => contact_messages' = contact_messages
             /\ (r.pc = "mail_admin" /\ ~Ends(s)) =>
                   /\ Len(outbox') = Len(outbox) + 1
                   /\ IsPrefix(outbox, outbox')
                   /\ outbox'[Len(outbox')].to = Admin
                   /\ req'[s].pc = "mail_reply"
             /\ (r.pc = "mail_reply" /\ last'.resp.type # "error") =>
                   /\ Len(outbox') = Len(outbox) + 1
                   /\ IsPrefix(outbox, outbox')
                   /\ outbox'[Len(outbox')].to = r.form.email
                   /\ Ends(s)
                   /\ last'.resp = Redirect("contact", None,
                                            "Your message has been sent!", "success")
             /\ (Ends(s) /\ last'.resp.type = "error") =>
                   /\ r.pc \in MailPcs
                   /\ outbox' = outbox]_vars

\* an anonymous POST was answered with the success redirect; its message and
\* its two emails are there
C6_Witness ==
    /\ Anonymous(last)
    /\ last.resp = Redirect("contact", None, "Your message has been sent!", "success")
    /\ Len(contact_messages) = 1
    /\ IsMessageOf(contact_messages[1], last)
    /\ Len(outbox) = 2
    /\ outbox[1].to = Admin /\ outbox[2].to = last.form.email

\* C9: in every submission workflow the record is in the store before any
\* notification is attempted, and no step removes or changes a stored record:
\* when a send fails, the request ends with an error and no success
\* indicator, and its record is still in the store.
C9_RecordOutlivesMailFailure ==
    [][/\ IsPrefix(contact_messages, contact_messages')
       /\ IsPrefix(reviews, reviews')
       /\ \A c \in Categories : IsPrefix(bookings[c], bookings'[c])
       /\ \A s \in Slots :
             /\ req'[s].pc \in MailPcs =>
                   Stored(req'[s], contact_messages', reviews', bookings')
             /\ (req[s].pc \in MailPcs /\ Ends(s) /\ last'.resp.type = "error") =>
                   /\ last'.resp.flash = None
                   /\ ~last'.resp.success
                   /\ outbox' = outbox
                   /\ Stored(req[s], contact_messages', reviews', bookings')
       /\ outbox' # outbox =>
             \E s \in Slots : /\ req[s].pc \in MailPcs
                               /\ Stored(req[s], contact_messages, reviews, bookings)
                               /\ IsPrefix(outbox, outbox')]_vars

\* a booking request ended in an error at its send, and its record is stored
C9_Witness ==
    /\ last.kind = "booking"
    /\ last.resp.type = "error"
    /\ Stored(last, contact_messages, reviews, bookings)
    /\ outbox = <<>>

----------------------------------------------------------------------------
(* Identity *)

\* C10: every stored booking and review carries an email that a successful
\* login (user found, password equal) bound to the session; a gated request
\* without a session user appends nothing and notifies nobody; only a
\* successful login binds the session and only logout unbinds it.
C10_SubmitterWasLoggedIn ==
    [][/\ \A c \in Categories : \A i \in DOMAIN bookings'[c] :
             bookings'[c][i].user \in everBound'
       /\ \A i \in DOMAIN reviews' : reviews'[i].user \in everBound'
       /\ \A s \in Slots :
             req'[s].kind \in {"reviews", "booking"} => req'[s].user \in everBound'
       /\ (everBound' # everBound \/ (session' # session /\ session' # NoEmail)) =>
             /\ Answered("login")
             /\ get_user(last'.form.email) # NoUser
             /\ get_user(last'.form.email).password = last'.form.password
             /\ session' = last'.form.email
             /\ everBound' = everBound \cup {session'}
       /\ (session' # session /\ session' = NoEmail) => Answered("logout")
       /\ ((Answered("reviews") \/ Answered("booking")) /\ last'.user = NoEmail) =>
             /\ bookings' = bookings /\ reviews' = reviews /\ outbox' = outbox
       /\ (bookings' # bookings \/ reviews' # reviews) =>
             \E s \in Slots : /\ req[s].kind \in {"reviews", "booking"}
                               /\ req[s].pc = "push"
                               /\ req[s].user \in everBound]_vars

\* a booking and a review are stored, both of an identity a login had bound
C10_Witness ==
    \E c \in Categories :
        /\ Len(bookings[c]) > 0 /\ Len(reviews) > 0
        /\ bookings[c][1].user \in everBound
        /\ reviews[1].user \in everBound

====
